---------------------------- MODULE Spec2Model ----------------------------
(***************************************************************************)
(* A model of src/receipt_processor.py (class ReceiptProcessor).           *)
(*                                                                         *)
(* Text.  A Python str is modelled as a sequence of atoms.  An atom is one *)
(* character ("1", ",", " ", "+", the line break "\n") or one whole word   *)
(* ("Milk", "Summa", "betalat", "None").  Word atoms are indivisible: the   *)
(* keyword tests of the code (`kw in line`, startswith) are tests on whole *)
(* atoms, and str.lower() maps a word atom to its lower-case word atom.    *)
(* Digits, separators and blanks are single-character atoms, so that the   *)
(* regular expressions, re.sub, re.split, str.strip and str.replace of the *)
(* code are computed character by character.                               *)
(*                                                                         *)
(* A table is a sequence of rows, a row a sequence of cells, a cell a str  *)
(* or Python's None (NoneCell).                                            *)
(***************************************************************************)
EXTENDS Integers, Sequences, FiniteSets, TLC

VARIABLES
    pc,               \* control point of the operation being run
    args,             \* process_receipt's arguments
    pdf,              \* the document: a sequence of pages
    pg,               \* extract_table_from_pdf: pages read so far
    all_tables,       \* extract_table_from_pdf: all_tables
    table,            \* the table handed to process_receipt_table
    items_and_prices, \* process_receipt_table: items_and_prices
    calls,            \* Export Sink operations issued so far, in order
    outcome,          \* how the run of process_receipt ended
    lines,            \* parse_receipt_text: lines
    li,               \* parse_receipt_text: lines consumed by the for loop
    header_found,     \* parse_receipt_text: header_found
    table_rows,       \* parse_receipt_text: table_rows
    header_row,       \* process_receipt_table: header_row (table[0])
    table_len,        \* process_receipt_table: len(table)
    ri,               \* process_receipt_table: rows consumed (header included)
    row,              \* process_receipt_table: row of the for loop
    desc_col_idx,     \* process_receipt_table: desc_col_idx
    price_col_idx,    \* process_receipt_table: price_col_idx
    line,             \* the line of the for loop over lines
    pdf_total,        \* extract_betalat_total: the value returned
    parts,            \* parse_receipt_text: parts (tokens of an item line)
    item_row          \* parse_receipt_text: the row built from parts, or <<>>

vars == <<pc, args, pdf, pg, all_tables, table, items_and_prices, calls,
          outcome, lines, li, header_found, table_rows, header_row,
          table_len, ri, row, desc_col_idx, price_col_idx, line, pdf_total,
          parts, item_row>>

-----------------------------------------------------------------------------
(* Bounds of the model.                                                    *)

\* data rows of a table read by the Row Normalizer
MaxRows == 2
\* cells of a row
MaxCols == 2
\* lines of a page text scanned by parse_receipt_text
MaxLines == 3
\* tokens of an item line
MaxTokens == 5
\* pages of a document
MaxPages == 2
\* parts a line of the paid-total scan is assembled from
MaxParts == 3
\* structural tables of a page
MaxTables == 2
\* data rows of the structural tables of a processed receipt
MaxItems == 6

-----------------------------------------------------------------------------
(* Python str operations on sequences of atoms.                            *)

Range(s) == {s[i] : i \in 1..Len(s)}

SeqsUpTo(S, n) == UNION {[1..k -> S] : k \in 0..n}

SeqsFromTo(S, m, n) == UNION {[1..k -> S] : k \in m..n}

MinOf(S) == CHOOSE x \in S : \A y \in S : x <= y

MaxOf(S) == CHOOSE x \in S : \A y \in S : x >= y

\* Python's None as a table cell
NoneCell == <<"<None>">>

\* str(cell)
Str(cell) == IF cell = NoneCell THEN <<"None">> ELSE cell

\* \d
IsDigit(a) == a \in {"0", "1", "2", "3", "4", "5", "6", "7", "8", "9"}

\* \s
IsSpace(a) == a = " "

\* str.strip()
Strip(s) ==
    LET keep == {i \in 1..Len(s) : ~IsSpace(s[i])}
    IN  IF keep = {} THEN <<>> ELSE SubSeq(s, MinOf(keep), MaxOf(keep))

\* str.lower() of one atom
LowerAtom(a) ==
    CASE a = "Beskrivning" -> "beskrivning"
      [] a = "Description" -> "description"
      [] a = "Summa"       -> "summa"
      [] a = "SUMMA"       -> "summa"
      [] a = "Betalat"     -> "betalat"
      [] a = "Moms"        -> "moms"
      [] a = "Kort"        -> "kort"
      [] a = "Totalt"      -> "totalt"
      [] a = "Pris"        -> "pris"
      [] a = "Datum"       -> "datum"
      [] a = "Milk"        -> "milk"
      [] a = "Bread"       -> "bread"
      [] a = "Item"        -> "item"
      [] OTHER             -> a

\* str.lower()
Lower(s) == [i \in 1..Len(s) |-> LowerAtom(s[i])]

\* kw in s, for a keyword atom kw
Contains(s, kw) == kw \in Range(s)

\* any(keyword in s for keyword in kws)
ContainsAny(s, kws) == \E kw \in kws : Contains(s, kw)

\* length of the run of blanks of s starting at position i
RECURSIVE SpaceRun(_, _)
SpaceRun(s, i) ==
    IF i > Len(s) \/ ~IsSpace(s[i]) THEN 0 ELSE 1 + SpaceRun(s, i + 1)

\* re.split(r'\s{k,}', s): cur is the piece being read, from position i on
RECURSIVE SplitFrom(_, _, _, _)
SplitFrom(s, k, i, cur) ==
    IF i > Len(s) THEN <<cur>>
    ELSE LET r == SpaceRun(s, i)
         IN  IF r >= k THEN <<cur>> \o SplitFrom(s, k, i + r, <<>>)
             ELSE IF r > 0
                  THEN SplitFrom(s, k, i + r, cur \o SubSeq(s, i, i + r - 1))
                  ELSE SplitFrom(s, k, i + 1, Append(cur, s[i]))

\* re.split(r'\s{2,}', s)
SplitWide(s) == SplitFrom(s, 2, 1, <<>>)

\* re.split(r'\s+', s)
SplitWs(s) == SplitFrom(s, 1, 1, <<>>)

\* text.split('\n')
RECURSIVE SplitNl(_, _, _)
SplitNl(s, i, cur) ==
    IF i > Len(s) THEN <<cur>>
    ELSE IF s[i] = "\n" THEN <<cur>> \o SplitNl(s, i + 1, <<>>)
         ELSE SplitNl(s, i + 1, Append(cur, s[i]))

\* [line.strip() for line in text.split('\n') if line.strip()]
RECURSIVE StripNonEmpty(_)
StripNonEmpty(ls) ==
    IF ls = <<>> THEN <<>>
    ELSE LET l == Strip(Head(ls))
         IN  (IF l = <<>> THEN <<>> ELSE <<l>>) \o StripNonEmpty(Tail(ls))

TextLines(text) == StripNonEmpty(SplitNl(text, 1, <<>>))

\* ' '.join(ws)
RECURSIVE JoinSp(_)
JoinSp(ws) ==
    IF ws = <<>> THEN <<>>
    ELSE IF Len(ws) = 1 THEN ws[1]
         ELSE ws[1] \o <<" ">> \o JoinSp(Tail(ws))

\* s.replace(',', '.')
CommaToDot(s) == [i \in 1..Len(s) |-> IF s[i] = "," THEN "." ELSE s[i]]

\* s[i:] matches \d+ followed by the end of s: the tail of the patterns below
RECURSIVE AllDigitsFrom(_, _)
AllDigitsFrom(s, i) ==
    IF i > Len(s) THEN TRUE
    ELSE IsDigit(s[i]) /\ AllDigitsFrom(s, i + 1)

\* number of leading digits of s from position i
RECURSIVE DigitRun(_, _)
DigitRun(s, i) ==
    IF i > Len(s) \/ ~IsDigit(s[i]) THEN 0 ELSE 1 + DigitRun(s, i + 1)

\* re.match(r'^\d+<sep>\d{2}$', s) for a separator in seps
MatchDecimal(s, seps) ==
    LET n == DigitRun(s, 1)
    IN  /\ n >= 1
        /\ Len(s) = n + 3
        /\ s[n + 1] \in seps
        /\ IsDigit(s[n + 2])
        /\ IsDigit(s[n + 3])

\* re.match(r'^\d+\.\d{2}', s): the pattern without its end anchor
MatchPriceUnanchored(s) ==
    LET n == DigitRun(s, 1)
    IN  /\ n >= 1
        /\ Len(s) >= n + 3
        /\ s[n + 1] = "."
        /\ IsDigit(s[n + 2])
        /\ IsDigit(s[n + 3])

\* re.match(r'^\d+\.\d{2}$', s)
MatchPrice(s) == MatchDecimal(s, {"."})

\* re.match(r'^\d+[,\.]\d{2}$', s)
MatchPriceToken(s) == MatchDecimal(s, {",", "."})

\* re.match(r'^\d{4,}$', s)
MatchArticle(s) == Len(s) >= 4 /\ AllDigitsFrom(s, 1)

-----------------------------------------------------------------------------
(* Row Normalizer: process_receipt_table.                                  *)

Abs(n) == IF n < 0 THEN 0 - n ELSE n

Max2(a, b) == IF a >= b THEN a ELSE b

\* row[idx], Python indexing: idx counts from 0, a negative idx from the end
CellAt(r, idx) == IF idx < 0 THEN r[Len(r) + idx + 1] ELSE r[idx + 1]

\* 'beskrivning' in col_lower or 'description' in col_lower
IsDescHeader(col) ==
    LET col_lower == Lower(Str(col))
    IN  Contains(col_lower, "beskrivning") \/ Contains(col_lower, "description")

\* 'summa' in col_lower
IsSumHeader(col) == Contains(Lower(Str(col)), "summa")

\* the header loop with a second `if` in place of the `elif`
RECURSIVE ResolveIndependentFrom(_, _, _, _)
ResolveIndependentFrom(hdr, i, d, p) ==
    IF i >= Len(hdr) THEN <<d, p>>
    ELSE ResolveIndependentFrom(hdr, i + 1,
                                IF IsDescHeader(hdr[i + 1]) THEN i ELSE d,
                                IF IsSumHeader(hdr[i + 1]) THEN i ELSE p)

\* for i, col in enumerate(header_row): ... ; i counts from 0
RECURSIVE ResolveFrom(_, _, _, _)
ResolveFrom(hdr, i, d, p) ==
    IF i >= Len(hdr) THEN <<d, p>>
    ELSE IF IsDescHeader(hdr[i + 1]) THEN ResolveFrom(hdr, i + 1, i, p)
         ELSE IF IsSumHeader(hdr[i + 1]) THEN ResolveFrom(hdr, i + 1, d, i)
              ELSE ResolveFrom(hdr, i + 1, d, p)

\* <<desc_col_idx, price_col_idx>> after the header loop, from 0 and -1
ResolveColumns(hdr) == ResolveFrom(hdr, 0, 0, 0 - 1)

\* len(row) <= max(desc_col_idx, abs(price_col_idx))
RowTooShort(r, d, p) == Len(r) <= Max2(d, Abs(p))

ItemName(r, d) == Strip(Str(CellAt(r, d)))

PriceValue(r, p) == Strip(Str(CellAt(r, p)))

\* not item_name or not price_value or item_name in ['None', 'nan', '']
RowInvalid(r, d, p) ==
    \/ ItemName(r, d) = <<>>
    \/ PriceValue(r, p) = <<>>
    \/ ItemName(r, d) \in {<<"None">>, <<"nan">>, <<>>}

\* re.sub(r'[^\d,.-]', '', price_value)
KeepPriceChars(s) ==
    SelectSeq(s, LAMBDA a : IsDigit(a) \/ a \in {",", ".", "-"})

\* price_clean
CleanPrice(price_value) == CommaToDot(KeepPriceChars(price_value))

\* item_name after the escape of a leading '+' or '*'
EscapeName(item_name) ==
    IF item_name # <<>> /\ item_name[1] \in {"+", "*"}
    THEN <<"'">> \o item_name
    ELSE item_name

\* what one pass of the loop body appends to items_and_prices
ProcessRow(r, d, p) ==
    IF RowTooShort(r, d, p) THEN <<>>
    ELSE IF RowInvalid(r, d, p) THEN <<>>
    ELSE IF MatchPrice(CleanPrice(PriceValue(r, p)))
         THEN << <<EscapeName(ItemName(r, d)), CleanPrice(PriceValue(r, p))>> >>
         ELSE <<>>

RECURSIVE ProcessRows(_, _, _)
ProcessRows(rows, d, p) ==
    IF rows = <<>> THEN <<>>
    ELSE ProcessRow(Head(rows), d, p) \o ProcessRows(Tail(rows), d, p)

\* the rows of the smallest table with a data row: len(table) < 2
MinRows == 2

\* process_receipt_table(table)
process_receipt_table(t) ==
    IF Len(t) < MinRows THEN <<>>
    ELSE LET c == ResolveColumns(t[1])
         IN  ProcessRows(Tail(t), c[1], c[2])

-----------------------------------------------------------------------------
(* Values the variables of an operation hold while another one is run.     *)

runVars == <<args, pdf, pg, all_tables, table, calls, outcome>>

scanVars == <<lines, li, header_found, table_rows>>

normVars == <<header_row, table_len, ri, row, desc_col_idx, price_col_idx>>

totalVars == <<line, pdf_total>>

itemVars == <<parts, item_row>>

RunIdle ==
    /\ args = <<>>
    /\ pdf = <<>>
    /\ pg = 0
    /\ all_tables = <<>>
    /\ table = <<>>
    /\ calls = <<>>
    /\ outcome = "none"

ScanIdle ==
    /\ lines = <<>>
    /\ li = 0
    /\ header_found = FALSE
    /\ table_rows = <<>>

NormIdle ==
    /\ header_row = <<>>
    /\ table_len = 0
    /\ ri = 0
    /\ row = <<>>
    /\ desc_col_idx = 0
    /\ price_col_idx = 0 - 1

TotalIdle ==
    /\ line = <<>>
    /\ pdf_total = <<>>

ItemIdle ==
    /\ parts = <<>>
    /\ item_row = <<>>

-----------------------------------------------------------------------------
(* SpecNormalize: process_receipt_table on a table whose header row is     *)
(* drawn at the call and whose data rows are drawn as the loop reads them. *)

HeaderCells ==
    { <<"Beskrivning">>, <<"SUMMA">>, <<"Description", " ", "Summa">>,
      <<"Item">>, NoneCell }

DataCells ==
    { NoneCell, <<" ">>, <<"nan">>, <<"+", "Milk">>, <<" ", "Bread">>,
      <<" ", "kr", "2", "5", ",", "5", "0">>, <<"-", "1", ",", "5", "0">>,
      <<"1", ",", "5", "0", "0">> }

NormHeaders == SeqsUpTo(HeaderCells, MaxCols)

NormRows == SeqsUpTo(DataCells, MaxCols)

InitNormalize ==
    /\ pc = "norm_entry"
    /\ table_len \in 0..(MaxRows + 1)
    /\ header_row \in (IF table_len = 0 THEN {<<>>} ELSE NormHeaders)
    /\ ri = 0
    /\ row = <<>>
    /\ desc_col_idx = 0
    /\ price_col_idx = 0 - 1
    /\ items_and_prices = <<>>
    /\ RunIdle /\ ScanIdle /\ TotalIdle /\ ItemIdle

\* if not table or len(table) < 2: return items_and_prices
NormTooFewRows ==
    /\ pc = "norm_entry"
    /\ table_len < MinRows
    /\ pc' = "norm_return"
    /\ UNCHANGED <<items_and_prices, normVars, runVars, scanVars, totalVars,
                   itemVars>>

\* the header loop
NormResolve ==
    /\ pc = "norm_entry"
    /\ table_len >= MinRows
    /\ desc_col_idx' = ResolveColumns(header_row)[1]
    /\ price_col_idx' = ResolveColumns(header_row)[2]
    /\ ri' = 1
    /\ pc' = "norm_rows"
    /\ UNCHANGED <<items_and_prices, header_row, table_len, row, runVars,
                   scanVars, totalVars, itemVars>>

\* one pass of `for row in table[1:]` that ends in `continue` at the length test
NormRowShort ==
    /\ pc = "norm_rows"
    /\ ri < table_len
    /\ \E r \in NormRows :
          /\ RowTooShort(r, desc_col_idx, price_col_idx)
          /\ row' = r
    /\ ri' = ri + 1
    /\ UNCHANGED <<pc, items_and_prices, header_row, table_len, desc_col_idx,
                   price_col_idx, runVars, scanVars, totalVars, itemVars>>

\* one pass that ends in `continue` at the empty or placeholder test
NormRowInvalid ==
    /\ pc = "norm_rows"
    /\ ri < table_len
    /\ \E r \in NormRows :
          /\ ~RowTooShort(r, desc_col_idx, price_col_idx)
          /\ RowInvalid(r, desc_col_idx, price_col_idx)
          /\ row' = r
    /\ ri' = ri + 1
    /\ UNCHANGED <<pc, items_and_prices, header_row, table_len, desc_col_idx,
                   price_col_idx, runVars, scanVars, totalVars, itemVars>>

\* one pass whose cleaned price fails the format test
NormRowBadPrice ==
    /\ pc = "norm_rows"
    /\ ri < table_len
    /\ \E r \in NormRows :
          /\ ~RowTooShort(r, desc_col_idx, price_col_idx)
          /\ ~RowInvalid(r, desc_col_idx, price_col_idx)
          /\ ~MatchPrice(CleanPrice(PriceValue(r, price_col_idx)))
          /\ row' = r
    /\ ri' = ri + 1
    /\ UNCHANGED <<pc, items_and_prices, header_row, table_len, desc_col_idx,
                   price_col_idx, runVars, scanVars, totalVars, itemVars>>

\* one pass that appends (item_name, price_clean)
NormRowEmit ==
    /\ pc = "norm_rows"
    /\ ri < table_len
    /\ \E r \in NormRows :
          /\ ~RowTooShort(r, desc_col_idx, price_col_idx)
          /\ ~RowInvalid(r, desc_col_idx, price_col_idx)
          /\ MatchPrice(CleanPrice(PriceValue(r, price_col_idx)))
          /\ row' = r
          /\ items_and_prices' =
                Append(items_and_prices,
                       <<EscapeName(ItemName(r, desc_col_idx)),
                         CleanPrice(PriceValue(r, price_col_idx))>>)
    /\ ri' = ri + 1
    /\ UNCHANGED <<pc, header_row, table_len, desc_col_idx, price_col_idx,
                   runVars, scanVars, totalVars, itemVars>>

\* return items_and_prices
NormReturn ==
    /\ pc = "norm_rows"
    /\ ri = table_len
    /\ pc' = "norm_return"
    /\ UNCHANGED <<items_and_prices, normVars, runVars, scanVars, totalVars,
                   itemVars>>

NextNormalize ==
    \/ NormTooFewRows
    \/ NormResolve
    \/ NormRowShort
    \/ NormRowInvalid
    \/ NormRowBadPrice
    \/ NormRowEmit
    \/ NormReturn

SpecNormalize == InitNormalize /\ [][NextNormalize]_vars

-----------------------------------------------------------------------------
(* SpecNormalizeRow: process_receipt_table on the smallest tables, no row, *)
(* a header row alone, and a header row with one data row: the same        *)
(* actions, from a table of at most MinRows rows.                          *)

InitNormalizeRow ==
    /\ pc = "norm_entry"
    /\ table_len \in 0..MinRows
    /\ header_row \in (IF table_len = 0 THEN {<<>>} ELSE NormHeaders)
    /\ ri = 0
    /\ row = <<>>
    /\ desc_col_idx = 0
    /\ price_col_idx = 0 - 1
    /\ items_and_prices = <<>>
    /\ RunIdle /\ ScanIdle /\ TotalIdle /\ ItemIdle

SpecNormalizeRow == InitNormalizeRow /\ [][NextNormalize]_vars

-----------------------------------------------------------------------------
(* Item-Line Parser: the body of parse_receipt_text's loop for one line.   *)

HeaderKeywords == {"Beskrivning", "Artikelnummer", "Pris", "Mängd", "Summa"}

FooterKeywords == {"betalat", "moms", "kort", "totalt", "köp"}

\* the literal '1.00 st'
QuantityLabel == <<"1", ".", "0", "0", " ", "st">>

\* index (from 0) of the last part matching ^\d{4,}$, or -1
RECURSIVE LastArticle(_, _)
LastArticle(ps, i) ==
    IF i >= Len(ps) THEN 0 - 1
    ELSE LET later == LastArticle(ps, i + 1)
         IN  IF later >= 0 THEN later
             ELSE IF MatchArticle(ps[i + 1]) THEN i ELSE 0 - 1

\* for i, part in enumerate(parts): if re.match(r'^\d{4,}$', part): ... break
\* the index (from 0) at which the loop breaks, or -1 when it never does
RECURSIVE FirstArticle(_, _)
FirstArticle(ps, i) ==
    IF i >= Len(ps) THEN 0 - 1
    ELSE IF MatchArticle(ps[i + 1]) THEN i
         ELSE FirstArticle(ps, i + 1)

\* prices: for p in remaining: if re.match(...): prices.append(p.replace(',', '.'))
RECURSIVE PricesOf(_)
PricesOf(remaining) ==
    IF remaining = <<>> THEN <<>>
    ELSE (IF MatchPriceToken(Head(remaining))
          THEN <<CommaToDot(Head(remaining))>>
          ELSE <<>>) \o PricesOf(Tail(remaining))

\* prices[0]
FirstPrice(prices) == prices[1]

\* prices[-1]
LastPrice(prices) == prices[Len(prices)]

\* the row appended for parts, or <<>> when none is
ItemRowOf(ps) ==
    LET i == FirstArticle(ps, 0)
    IN  IF i < 0 THEN <<>>
        ELSE LET item_name == JoinSp(SubSeq(ps, 1, i))
                 prices == PricesOf(SubSeq(ps, i + 2, Len(ps)))
             IN  IF item_name # <<>> /\ Len(prices) >= 2
                 THEN <<item_name, ps[i + 1], prices[1], QuantityLabel,
                        LastPrice(prices)>>
                 ELSE <<>>

\* any(keyword in line for keyword in ['Beskrivning', ...])
IsHeaderLine(l) == ContainsAny(l, HeaderKeywords)

\* any(keyword in line for keyword in ['betalat', ...]): no lower()
IsFooterLineCased(l) == ContainsAny(l, FooterKeywords)

\* any(keyword in line.lower() for keyword in ['betalat', ...])
IsFooterLine(l) == ContainsAny(Lower(l), FooterKeywords)

\* len(parts) >= 4 and the parts give a row
IsItemLine(l) == Len(SplitWs(l)) >= 4 /\ ItemRowOf(SplitWs(l)) # <<>>

\* One pass of `for line in lines` on the loop's state
\* st = [header_found, table_rows, stop]; stop is set by `break`.
ScanLine(st, l) ==
    IF st.stop THEN st
    ELSE IF IsHeaderLine(l)
         THEN [st EXCEPT !.header_found = TRUE,
                         !.table_rows = Append(@, SplitWide(l))]
    ELSE IF ~st.header_found THEN st
    ELSE IF IsFooterLine(l) THEN [st EXCEPT !.stop = TRUE]
    ELSE IF IsItemLine(l)
         THEN [st EXCEPT !.table_rows = Append(@, ItemRowOf(SplitWs(l)))]
         ELSE st

RECURSIVE ScanLines(_, _)
ScanLines(st, ls) ==
    IF ls = <<>> THEN st ELSE ScanLines(ScanLine(st, Head(ls)), Tail(ls))

\* return table_rows if len(table_rows) > 1 else []
ScanResult(rows) == IF Len(rows) > 1 THEN rows ELSE <<>>

\* parse_receipt_text(text)
parse_receipt_text(text) ==
    ScanResult(ScanLines([header_found |-> FALSE, table_rows |-> <<>>,
                          stop |-> FALSE], TextLines(text)).table_rows)

-----------------------------------------------------------------------------
(* Field Scanner: extract_betalat_total.                                   *)

\* line.startswith(prefix)
StartsWith(l, prefix) ==
    Len(l) >= Len(prefix) /\ SubSeq(l, 1, Len(prefix)) = prefix

\* s with only its leading pat removed, for s starting with pat
RemoveLeading(s, pat) == SubSeq(s, Len(pat) + 1, Len(s))

\* s.replace(pat, ''): every occurrence of pat, left to right
RECURSIVE RemoveAll(_, _)
RemoveAll(s, pat) ==
    IF s = <<>> THEN <<>>
    ELSE IF StartsWith(s, pat)
         THEN RemoveAll(SubSeq(s, Len(pat) + 1, Len(s)), pat)
         ELSE <<Head(s)>> \o RemoveAll(Tail(s), pat)

BetalatPrefix == <<"Betalat", " ">>

\* amount_clean
AmountClean(l) == CommaToDot(Strip(RemoveAll(l, BetalatPrefix)))

\* what the loop body returns for line l, or <<>> when it goes on
LineTotal(l) ==
    IF StartsWith(l, BetalatPrefix) /\ MatchPrice(AmountClean(l))
    THEN AmountClean(l)
    ELSE <<>>

RECURSIVE FirstTotal(_)
FirstTotal(ls) ==
    IF ls = <<>> THEN <<>>
    ELSE IF LineTotal(Head(ls)) # <<>> THEN LineTotal(Head(ls))
         ELSE FirstTotal(Tail(ls))

\* the lines of every page with a text, in page order
RECURSIVE AllLines(_)
AllLines(pages) ==
    IF pages = <<>> THEN <<>>
    ELSE TextLines(Head(pages).text) \o AllLines(Tail(pages))

\* extract_betalat_total(pdf_path)
extract_betalat_total(pages) == FirstTotal(AllLines(pages))

-----------------------------------------------------------------------------
(* SpecItemLine: the Item-Line Parser on one line of tokens.               *)

RECURSIVE Concat(_)
Concat(ss) == IF ss = <<>> THEN <<>> ELSE Head(ss) \o Concat(Tail(ss))

ItemTokens ==
    { <<"Milk">>, <<"1", "2", "3", "4">>, <<"5", "6", "7", "8", "9">>,
      <<"1", "2", "3">>, <<"1", ",", "0", "0">>, <<"2", ".", "5", "0">> }

ItemLines == {JoinSp(ts) : ts \in SeqsFromTo(ItemTokens, 1, MaxTokens)}

InitItemLine ==
    /\ pc = "item_line"
    /\ line \in ItemLines
    /\ pdf_total = <<>>
    /\ items_and_prices = <<>>
    /\ RunIdle /\ ScanIdle /\ NormIdle /\ ItemIdle

\* parts = re.split(r'\s+', line)
ItemSplit ==
    /\ pc = "item_line"
    /\ parts' = SplitWs(line)
    /\ pc' = "item_parts"
    /\ UNCHANGED <<item_row, items_and_prices, runVars, scanVars, normVars,
                   totalVars>>

\* if len(parts) >= 4: fails
ItemTooFewParts ==
    /\ pc = "item_parts"
    /\ Len(parts) < 4
    /\ pc' = "item_done"
    /\ UNCHANGED <<parts, item_row, items_and_prices, runVars, scanVars,
                   normVars, totalVars>>

\* if item_name and len(prices) >= 2: fails
ItemReject ==
    /\ pc = "item_parts"
    /\ Len(parts) >= 4
    /\ ItemRowOf(parts) = <<>>
    /\ pc' = "item_done"
    /\ UNCHANGED <<parts, item_row, items_and_prices, runVars, scanVars,
                   normVars, totalVars>>

\* table_rows.append([item_name, article_num, prices[0], '1.00 st', prices[-1]])
ItemAccept ==
    /\ pc = "item_parts"
    /\ Len(parts) >= 4
    /\ ItemRowOf(parts) # <<>>
    /\ item_row' = ItemRowOf(parts)
    /\ pc' = "item_done"
    /\ UNCHANGED <<parts, items_and_prices, runVars, scanVars, normVars,
                   totalVars>>

NextItemLine == ItemSplit \/ ItemTooFewParts \/ ItemReject \/ ItemAccept

SpecItemLine == InitItemLine /\ [][NextItemLine]_vars

-----------------------------------------------------------------------------
(* SpecTotal: extract_betalat_total; the pages and their lines are drawn   *)
(* as the loops read them.                                                 *)

TotalParts ==
    { BetalatPrefix, <<"Betalat">>, <<" ">>, <<"1", "0", ",", "0", "0">>,
      <<"2", ".", "5", "0">>, <<"kr">> }

\* the stripped, non-empty lines of a page text
TotalLines ==
    {Strip(Concat(ps)) : ps \in SeqsFromTo(TotalParts, 1, MaxParts)} \ {<<>>}

InitTotal ==
    /\ pc = "total_pages"
    /\ line = <<>>
    /\ pdf_total = <<>>
    /\ items_and_prices = <<>>
    /\ RunIdle /\ ScanIdle /\ NormIdle /\ ItemIdle

\* for page in pdf.pages: the next page, whose text has lines
TotalOpenPage ==
    /\ pc = "total_pages"
    /\ pg < MaxPages
    /\ pg' = pg + 1
    /\ li' = 0
    /\ pc' = "total_lines"
    /\ UNCHANGED <<args, pdf, all_tables, table, calls, outcome, lines,
                   header_found, table_rows, line, pdf_total,
                   items_and_prices, normVars, itemVars>>

\* one pass of `for line in lines` that does not return
TotalLineSkip ==
    /\ pc = "total_lines"
    /\ li < MaxLines
    /\ \E l \in TotalLines :
          /\ LineTotal(l) = <<>>
          /\ line' = l
    /\ li' = li + 1
    /\ UNCHANGED <<pc, args, pdf, pg, all_tables, table, calls, outcome,
                   lines, header_found, table_rows, pdf_total,
                   items_and_prices, normVars, itemVars>>

\* return amount_clean
TotalLineReturn ==
    /\ pc = "total_lines"
    /\ li < MaxLines
    /\ \E l \in TotalLines :
          /\ LineTotal(l) # <<>>
          /\ line' = l
          /\ pdf_total' = LineTotal(l)
    /\ li' = li + 1
    /\ pc' = "total_return"
    /\ UNCHANGED <<args, pdf, pg, all_tables, table, calls, outcome, lines,
                   header_found, table_rows, items_and_prices, normVars,
                   itemVars>>

\* the lines of the page are exhausted
TotalPageEnd ==
    /\ pc = "total_lines"
    /\ pc' = "total_pages"
    /\ UNCHANGED <<args, pdf, pg, all_tables, table, calls, outcome,
                   scanVars, totalVars, items_and_prices, normVars, itemVars>>

\* the pages are exhausted: return ""
TotalNotFound ==
    /\ pc = "total_pages"
    /\ pdf_total' = <<>>
    /\ pc' = "total_return"
    /\ UNCHANGED <<line, runVars, scanVars, items_and_prices, normVars,
                   itemVars>>

NextTotal ==
    \/ TotalOpenPage
    \/ TotalLineSkip
    \/ TotalLineReturn
    \/ TotalPageEnd
    \/ TotalNotFound

SpecTotal == InitTotal /\ [][NextTotal]_vars

-----------------------------------------------------------------------------
(* SpecText: a document of one page with no structural table.  The page's  *)
(* text is scanned by parse_receipt_text line by line, the table it        *)
(* returns is the only candidate of extract_table_from_pdf and goes to     *)
(* process_receipt_table; the paid total is then read from the same text.  *)

\* text lines joined by line breaks
RECURSIVE JoinNl(_)
JoinNl(ls) ==
    IF ls = <<>> THEN <<>>
    ELSE IF Len(ls) = 1 THEN ls[1]
         ELSE ls[1] \o <<"\n">> \o JoinNl(Tail(ls))

Price1000 == <<"1", "0", ",", "0", "0">>

ScenarioHeader ==
    <<"Beskrivning", " ", "Artikelnummer", " ", "Pris", " ", "Mängd", " ",
      "Summa">>

ScenarioItem ==
    <<"Milk", " ", "1", "2", "3", "4", "5", " ">> \o Price1000
        \o <<" ", "1", " ">> \o Price1000

ScenarioPaid == <<"Betalat", " ">> \o Price1000

ScenarioA == <<ScenarioHeader, ScenarioItem, ScenarioPaid>>

TextRawLines ==
    { ScenarioHeader,
      <<"Beskrivning", " ", " ", "Artikelnummer", " ", " ", "Pris", " ", " ",
        "Mängd", " ", " ", "Summa">>,
      <<"Beskrivning", " ", " ", "Summa">>,
      <<"Artikelnummer", " ", " ", "Beskrivning">>,
      ScenarioItem,
      <<"+", "Ost", " ", "1", "2", "3", "4", " ", "5", ",", "0", "0", " ",
        "2", " ">> \o Price1000,
      <<"nan", " ", "1", "2", "3", "4", " ", "1", ",", "0", "0", " ",
        "1", ".", "0", "0">>,
      <<"Milk", " ", "1", "2", "3", "4", " ", "1", ",", "0", "0", " ", "st">>,
      <<" ", "Bread", " ", "1", ",", "0", "0", " ">>,
      ScenarioPaid,
      <<"Summa", " ", "Totalt">>,
      <<" ">> }

Texts == {JoinNl(ls) : ls \in SeqsUpTo(TextRawLines, MaxLines)}

InitText ==
    /\ pc = "scan"
    /\ lines \in {TextLines(text) : text \in Texts}
    /\ li = 0
    /\ header_found = FALSE
    /\ table_rows = <<>>
    /\ items_and_prices = <<>>
    /\ RunIdle /\ NormIdle /\ TotalIdle /\ ItemIdle

\* the state of the loop, for ScanLine
ScanState ==
    [header_found |-> header_found, table_rows |-> table_rows, stop |-> FALSE]

\* a pass on a header line: table_rows.append(header_parts); continue
ScanHeader ==
    /\ pc = "scan"
    /\ li < Len(lines)
    /\ IsHeaderLine(lines[li + 1])
    /\ header_found' = ScanLine(ScanState, lines[li + 1]).header_found
    /\ table_rows' = ScanLine(ScanState, lines[li + 1]).table_rows
    /\ li' = li + 1
    /\ UNCHANGED <<pc, lines, items_and_prices, runVars, normVars, totalVars,
                   itemVars>>

\* a pass on a line that is no header, before any header
ScanSkip ==
    /\ pc = "scan"
    /\ li < Len(lines)
    /\ ~IsHeaderLine(lines[li + 1])
    /\ ~header_found
    /\ li' = li + 1
    /\ UNCHANGED <<pc, lines, header_found, table_rows, items_and_prices,
                   runVars, normVars, totalVars, itemVars>>

\* a pass on a footer line after a header: break
ScanFooter ==
    /\ pc = "scan"
    /\ li < Len(lines)
    /\ ~IsHeaderLine(lines[li + 1])
    /\ header_found
    /\ IsFooterLine(lines[li + 1])
    /\ ScanLine(ScanState, lines[li + 1]).stop
    /\ li' = li + 1
    /\ pc' = "scan_done"
    /\ UNCHANGED <<lines, header_found, table_rows, items_and_prices,
                   runVars, normVars, totalVars, itemVars>>

\* a pass on a line after a header that gives no row
ScanNoItem ==
    /\ pc = "scan"
    /\ li < Len(lines)
    /\ ~IsHeaderLine(lines[li + 1])
    /\ header_found
    /\ ~IsFooterLine(lines[li + 1])
    /\ ~IsItemLine(lines[li + 1])
    /\ li' = li + 1
    /\ UNCHANGED <<pc, lines, header_found, table_rows, items_and_prices,
                   runVars, normVars, totalVars, itemVars>>

\* a pass on a line after a header that appends an item row
ScanItem ==
    /\ pc = "scan"
    /\ li < Len(lines)
    /\ ~IsHeaderLine(lines[li + 1])
    /\ header_found
    /\ ~IsFooterLine(lines[li + 1])
    /\ IsItemLine(lines[li + 1])
    /\ table_rows' = ScanLine(ScanState, lines[li + 1]).table_rows
    /\ li' = li + 1
    /\ UNCHANGED <<pc, lines, header_found, items_and_prices, runVars,
                   normVars, totalVars, itemVars>>

\* the lines are exhausted
ScanEnd ==
    /\ pc = "scan"
    /\ li = Len(lines)
    /\ pc' = "scan_done"
    /\ UNCHANGED <<lines, li, header_found, table_rows, items_and_prices,
                   runVars, normVars, totalVars, itemVars>>

\* return table_rows if len(table_rows) > 1 else []
ScanReturn ==
    /\ pc = "scan_done"
    /\ table' = ScanResult(table_rows)
    /\ pc' = "scan_return"
    /\ UNCHANGED <<args, pdf, pg, all_tables, calls, outcome, scanVars,
                   items_and_prices, normVars, totalVars, itemVars>>

\* extract_table_from_pdf: no candidate, ValueError, sys.exit(1)
TextNoTable ==
    /\ pc = "scan_return"
    /\ table = <<>>
    /\ outcome' = "fatal"
    /\ pc' = "done"
    /\ UNCHANGED <<args, pdf, pg, all_tables, table, calls, scanVars,
                   items_and_prices, normVars, totalVars, itemVars>>

\* extract_table_from_pdf returns the only candidate; process_receipt_table
TextNormalize ==
    /\ pc = "scan_return"
    /\ table # <<>>
    /\ all_tables' = <<table>>
    /\ items_and_prices' = process_receipt_table(table)
    /\ pc' = "normalized"
    /\ UNCHANGED <<args, pdf, pg, table, calls, outcome, scanVars, normVars,
                   totalVars, itemVars>>

\* pdf_total = self.extract_betalat_total(pdf_path)
TextPaidTotal ==
    /\ pc = "normalized"
    /\ pdf_total' = FirstTotal(lines)
    /\ pc' = "done"
    /\ UNCHANGED <<line, items_and_prices, runVars, scanVars, normVars,
                   itemVars>>

NextText ==
    \/ ScanHeader
    \/ ScanSkip
    \/ ScanFooter
    \/ ScanNoItem
    \/ ScanItem
    \/ ScanEnd
    \/ ScanReturn
    \/ TextNoTable
    \/ TextNormalize
    \/ TextPaidTotal

SpecText == InitText /\ [][NextText]_vars

-----------------------------------------------------------------------------
(* Table Extractor: extract_table_from_pdf.  A page is a record            *)
(* [tables, text]: what page.extract_tables() and page.extract_text()      *)
(* return; text is <<>> for None or "".                                    *)

\* what one pass of `for page in pdf.pages` adds to all_tables
PageCandidates(page) ==
    IF page.tables # <<>> THEN page.tables
    ELSE IF page.text # <<>> /\ parse_receipt_text(page.text) # <<>>
         THEN <<parse_receipt_text(page.text)>>
         ELSE <<>>

RECURSIVE GatherTables(_)
GatherTables(pages) ==
    IF pages = <<>> THEN <<>>
    ELSE PageCandidates(Head(pages)) \o GatherTables(Tail(pages))

\* the last of the tables of greatest length, from best on
RECURSIVE LargestLastFrom(_, _)
LargestLastFrom(best, rest) ==
    IF rest = <<>> THEN best
    ELSE IF Len(Head(rest)) >= Len(best)
         THEN LargestLastFrom(Head(rest), Tail(rest))
         ELSE LargestLastFrom(best, Tail(rest))

\* max(..., key=len): a later table replaces best only if it is longer
RECURSIVE LargestFrom(_, _)
LargestFrom(best, rest) ==
    IF rest = <<>> THEN best
    ELSE IF Len(Head(rest)) > Len(best)
         THEN LargestFrom(Head(rest), Tail(rest))
         ELSE LargestFrom(best, Tail(rest))

\* max(all_tables, key=len), for all_tables not empty
SelectLargest(tabs) == LargestFrom(Head(tabs), Tail(tabs))

-----------------------------------------------------------------------------
(* SpecExtract: extract_table_from_pdf, page by page.                      *)

StructTables ==
    { << <<<<"Beskrivning">>, <<"Summa">>>>,
         <<<<"Bread">>, <<"2", "5", ",", "5", "0">>>>,
         <<<<>>, <<"nan">>>> >>,
      << <<<<"Item">>, <<"Pris">>>>,
         <<<<"Milk">>, Price1000>>,
         <<<<"+", "Ost">>, <<"5", ".", "0", "0">>>> >>,
      << <<<<"Item">>>> >> }

TwoItemText ==
    JoinNl(<<ScenarioHeader, ScenarioItem,
             <<"Ost", " ", "1", "2", "3", "4", " ", "5", ",", "0", "0", " ",
               "2", " ">> \o Price1000>>)

NoHeaderText == JoinNl(<<<<"Kvitto">>, ScenarioItem>>)

ExtractPages ==
    {[tables |-> ts, text |-> <<>>] :
        ts \in SeqsFromTo(StructTables, 1, MaxTables)}
    \cup {[tables |-> <<>>, text |-> t] :
            t \in {JoinNl(ScenarioA), TwoItemText, NoHeaderText, <<>>}}
    \cup {[tables |-> << << <<<<"Item">>>> >> >>, text |-> JoinNl(ScenarioA)]}

InitExtract ==
    /\ pc = "extract_pages"
    /\ pdf \in SeqsUpTo(ExtractPages, MaxPages)
    /\ args = <<>>
    /\ pg = 0
    /\ all_tables = <<>>
    /\ table = <<>>
    /\ calls = <<>>
    /\ outcome = "none"
    /\ items_and_prices = <<>>
    /\ ScanIdle /\ NormIdle /\ TotalIdle /\ ItemIdle

\* if tables: all_tables.extend(tables)
ExtractPageTables ==
    /\ pc = "extract_pages"
    /\ pg < Len(pdf)
    /\ pdf[pg + 1].tables # <<>>
    /\ all_tables' = all_tables \o PageCandidates(pdf[pg + 1])
    /\ pg' = pg + 1
    /\ UNCHANGED <<pc, args, pdf, table, calls, outcome, items_and_prices,
                   scanVars, normVars, totalVars, itemVars>>

\* if not tables: ... if parsed_table: all_tables.append(parsed_table)
ExtractPageText ==
    /\ pc = "extract_pages"
    /\ pg < Len(pdf)
    /\ pdf[pg + 1].tables = <<>>
    /\ pdf[pg + 1].text # <<>>
    /\ parse_receipt_text(pdf[pg + 1].text) # <<>>
    /\ all_tables' = all_tables \o PageCandidates(pdf[pg + 1])
    /\ pg' = pg + 1
    /\ UNCHANGED <<pc, args, pdf, table, calls, outcome, items_and_prices,
                   scanVars, normVars, totalVars, itemVars>>

\* a page with no table, and no text or no table parsed from its text
ExtractPageNothing ==
    /\ pc = "extract_pages"
    /\ pg < Len(pdf)
    /\ pdf[pg + 1].tables = <<>>
    /\ \/ pdf[pg + 1].text = <<>>
       \/ parse_receipt_text(pdf[pg + 1].text) = <<>>
    /\ pg' = pg + 1
    /\ UNCHANGED <<pc, args, pdf, all_tables, table, calls, outcome,
                   items_and_prices, scanVars, normVars, totalVars, itemVars>>

\* if not all_tables: raise ValueError; except: sys.exit(1)
ExtractNoTable ==
    /\ pc = "extract_pages"
    /\ pg = Len(pdf)
    /\ all_tables = <<>>
    /\ outcome' = "fatal"
    /\ pc' = "extract_exit"
    /\ UNCHANGED <<args, pdf, pg, all_tables, table, calls, items_and_prices,
                   scanVars, normVars, totalVars, itemVars>>

\* return max(all_tables, key=len)
ExtractSelect ==
    /\ pc = "extract_pages"
    /\ pg = Len(pdf)
    /\ all_tables # <<>>
    /\ table' = SelectLargest(all_tables)
    /\ pc' = "extract_return"
    /\ UNCHANGED <<args, pdf, pg, all_tables, calls, outcome,
                   items_and_prices, scanVars, normVars, totalVars, itemVars>>

NextExtract ==
    \/ ExtractPageTables
    \/ ExtractPageText
    \/ ExtractPageNothing
    \/ ExtractNoTable
    \/ ExtractSelect

SpecExtract == InitExtract /\ [][NextExtract]_vars

-----------------------------------------------------------------------------
(* Field Scanner: extract_date_from_pdf.                                   *)

\* \d{4}-\d{2}-\d{2} matches l at position i
DateAt(l, i) ==
    /\ i + 9 <= Len(l)
    /\ \A k \in {0, 1, 2, 3, 5, 6, 8, 9} : IsDigit(l[i + k])
    /\ l[i + 4] = "-"
    /\ l[i + 7] = "-"

\* re.search(r'(\d{4}-\d{2}-\d{2})', line).group(1), or <<>> for no match
DateIn(l) ==
    LET at == {i \in 1..Len(l) : DateAt(l, i)}
    IN  IF at = {} THEN <<>> ELSE SubSeq(l, MinOf(at), MinOf(at) + 9)

RECURSIVE FirstDate(_)
FirstDate(ls) ==
    IF ls = <<>> THEN <<>>
    ELSE IF Contains(Head(ls), "Datum") /\ DateIn(Head(ls)) # <<>>
         THEN DateIn(Head(ls))
         ELSE FirstDate(Tail(ls))

\* extract_date_from_pdf(pdf_path)
extract_date_from_pdf(pages) == FirstDate(AllLines(pages))

-----------------------------------------------------------------------------
(* Export Sink: the values written by create_or_update_sheet and           *)
(* create_new_spreadsheet.  A grid is a sequence of rows of cells.         *)

DigitAtom(d) == <<"0", "1", "2", "3", "4", "5", "6", "7", "8", "9">>[d + 1]

\* the decimal text of n >= 0, as an f-string renders it
RECURSIVE ToDecimal(_)
ToDecimal(n) ==
    IF n < 10 THEN <<DigitAtom(n)>>
    ELSE ToDecimal(n \div 10) \o <<DigitAtom(n % 10)>>

SheetHeader ==
    <<<<"Item">>, <<"Shared expenses">>, <<"My expenses">>,
      <<"Jessica expenses">>, <<>>, <<>>, <<>>>>

\* for item, price in data: sheet_data.append([item, price, '', '', '', '', ''])
ItemRows(data) ==
    [i \in 1..Len(data) |-> <<data[i][1], data[i][2], <<>>, <<>>, <<>>, <<>>, <<>>>>]

BlankRow == <<<<>>, <<>>, <<>>, <<>>, <<>>, <<>>, <<>>>>

SummaryRow(label, value) == <<<<>>, <<>>, <<>>, <<>>, <<>>, <<label>>, value>>

\* f'=SUM(G{start_row}:G{start_row+2})'
SheetTotalFormula(start_row) ==
    <<"=SUM(", "G">> \o ToDecimal(start_row) \o <<":", "G">>
        \o ToDecimal(start_row + 2) \o <<")">>

\* the five summary rows
SummaryRows(start_row, total) ==
    << SummaryRow("Sum of shared expenses", <<"=SUM(", "B", ":", "B", ")">>),
       SummaryRow("Sum of my expenses", <<"=SUM(", "C", ":", "C", ")">>),
       SummaryRow("Sum of Jessica's expenses", <<"=SUM(", "D", ":", "D", ")">>),
       SummaryRow("Sheet total", SheetTotalFormula(start_row)),
       SummaryRow("PDF total", total) >>

\* len(data) + 2: the row of the blank separator
StartRowOffByOne(data) == Len(data) + 2

\* create_or_update_sheet: start_row = len(data) + 3
UpdateStartRow(data) == Len(data) + 3

\* create_new_spreadsheet: start_row = len(data) + 3
NewStartRow(data) == Len(data) + 3

\* create_or_update_sheet: sheet_data
UpdateSheetData(data, total) ==
    <<SheetHeader>> \o ItemRows(data) \o <<BlankRow>>
        \o SummaryRows(UpdateStartRow(data), total)

\* create_new_spreadsheet: sheet_data
NewSheetData(data, total) ==
    <<SheetHeader>> \o ItemRows(data) \o <<BlankRow>>
        \o SummaryRows(NewStartRow(data), total)

DefaultSheetName == <<"Receipt Items">>

\* the date taken whatever name was passed
FinalSheetNameAlways(sheet_name, pages) ==
    IF extract_date_from_pdf(pages) # <<>>
    THEN extract_date_from_pdf(pages)
    ELSE sheet_name

\* process_receipt: final_sheet_name
FinalSheetName(sheet_name, pages) ==
    IF sheet_name = DefaultSheetName /\ extract_date_from_pdf(pages) # <<>>
    THEN extract_date_from_pdf(pages)
    ELSE sheet_name

\* the tab create_new_spreadsheet creates and writes: 'Receipt Items'
NewSheetTab == <<"Receipt Items">>

\* the test of an empty list left out
NeverEmpty(data) == FALSE

\* if not items_and_prices
NoItems(data) == data = <<>>

-----------------------------------------------------------------------------
(* Spec: one run of process_receipt.                                       *)

\* a structural table with k data rows: k valid item rows
ItemTable(k) ==
    << <<<<"Beskrivning">>, <<"Summa">>>> >>
    \o [i \in 1..k |-> <<<<"Milk">> \o ToDecimal(i),
                         ToDecimal(i) \o <<",", "5", "0">>>>]

DateLine ==
    <<"Datum", " ", "2", "0", "2", "5", "-", "0", "3", "-", "1", "4", " ",
      "1", "2", ":", "0", "0">>

RunPages ==
    {[tables |-> <<ItemTable(k)>>, text |-> <<>>] : k \in 1..MaxItems}
    \cup { [tables |-> <<>>, text |-> JoinNl(ScenarioA)],
           [tables |-> <<>>, text |-> JoinNl(<<DateLine, ScenarioPaid>>)],
           [tables |-> <<>>, text |-> <<>>],
           [tables |-> << << <<<<"Item">>, <<"Pris">>>>,
                             <<<<"Bread">>, <<"-">>>> >> >>,
            text |-> JoinNl(<<<<"Datum">>, ScenarioPaid>>)] }

RunArgs ==
    [exists : {TRUE},
     csv_path : {<<>>, <<"out.csv">>},
     create_new : BOOLEAN,
     spreadsheet_id : {<<>>, <<"sheet-1">>},
     sheet_name : {DefaultSheetName, <<"Groceries">>}]

MissingPdfArgs ==
    [exists |-> FALSE, csv_path |-> <<"out.csv">>, create_new |-> FALSE,
     spreadsheet_id |-> <<>>, sheet_name |-> DefaultSheetName]

Init ==
    /\ pc = "start"
    /\ \/ args \in RunArgs /\ pdf \in SeqsFromTo(RunPages, 1, MaxPages)
       \/ args = MissingPdfArgs /\ pdf = <<>>
    /\ pg = 0
    /\ all_tables = <<>>
    /\ table = <<>>
    /\ calls = <<>>
    /\ outcome = "none"
    /\ items_and_prices = <<>>
    /\ pdf_total = <<>>
    /\ line = <<>>
    /\ ScanIdle /\ NormIdle /\ ItemIdle

\* extract_table_from_pdf: raise FileNotFoundError
RunMissingPdf ==
    /\ pc = "start"
    /\ ~args.exists
    /\ outcome' = "fatal"
    /\ pc' = "done"
    /\ UNCHANGED <<args, pdf, pg, all_tables, table, calls, items_and_prices,
                   scanVars, normVars, totalVars, itemVars>>

\* extract_table_from_pdf: no candidate on any page, sys.exit(1)
RunNoTable ==
    /\ pc = "start"
    /\ args.exists
    /\ GatherTables(pdf) = <<>>
    /\ pg' = Len(pdf)
    /\ outcome' = "fatal"
    /\ pc' = "done"
    /\ UNCHANGED <<args, pdf, all_tables, table, calls, items_and_prices,
                   scanVars, normVars, totalVars, itemVars>>

\* extract_items_and_prices: the largest table, then process_receipt_table
RunExtract ==
    /\ pc = "start"
    /\ args.exists
    /\ GatherTables(pdf) # <<>>
    /\ pg' = Len(pdf)
    /\ all_tables' = GatherTables(pdf)
    /\ table' = SelectLargest(GatherTables(pdf))
    /\ items_and_prices' = process_receipt_table(SelectLargest(GatherTables(pdf)))
    /\ pc' = "extracted"
    /\ UNCHANGED <<args, pdf, calls, outcome, scanVars, normVars, totalVars,
                   itemVars>>

\* if not items_and_prices: print("No items found in the receipt."); return
RunNoItems ==
    /\ pc = "extracted"
    /\ NoItems(items_and_prices)
    /\ outcome' = "no_items"
    /\ pc' = "done"
    /\ UNCHANGED <<args, pdf, pg, all_tables, table, calls, items_and_prices,
                   scanVars, normVars, totalVars, itemVars>>

\* if csv_path: self.save_to_csv(items_and_prices, csv_path)
RunSaveCsv ==
    /\ pc = "extracted"
    /\ ~NoItems(items_and_prices)
    /\ args.csv_path # <<>>
    /\ calls' = Append(calls, [op |-> "csv_write", path |-> args.csv_path,
                               rows |-> <<<<<<"Item">>, <<"Price">>>>>>
                                          \o items_and_prices])
    /\ outcome' = "exported"
    /\ pc' = "done"
    /\ UNCHANGED <<args, pdf, pg, all_tables, table, items_and_prices,
                   scanVars, normVars, totalVars, itemVars>>

\* else: self.authenticate_google_sheets()
RunAuthenticate ==
    /\ pc = "extracted"
    /\ ~NoItems(items_and_prices)
    /\ args.csv_path = <<>>
    /\ calls' = Append(calls, [op |-> "authenticate"])
    /\ pc' = "authenticated"
    /\ UNCHANGED <<args, pdf, pg, all_tables, table, outcome,
                   items_and_prices, scanVars, normVars, totalVars, itemVars>>

\* authenticate_google_sheets: no token and no credentials file, sys.exit(1)
RunAuthNoCredentials ==
    /\ pc = "extracted"
    /\ ~NoItems(items_and_prices)
    /\ args.csv_path = <<>>
    /\ calls' = Append(calls, [op |-> "authenticate"])
    /\ outcome' = "fatal"
    /\ pc' = "done"
    /\ UNCHANGED <<args, pdf, pg, all_tables, table, items_and_prices,
                   scanVars, normVars, totalVars, itemVars>>

\* the first request of either upload raises: except Exception, sys.exit(1)
RunApiError ==
    /\ pc = "authenticated"
    /\ args.create_new \/ args.spreadsheet_id # <<>>
    /\ pdf_total' = extract_betalat_total(pdf)
    /\ calls' = Append(calls, IF args.create_new
                               THEN [op |-> "create", tab |-> NewSheetTab]
                               ELSE [op |-> "get", id |-> args.spreadsheet_id])
    /\ outcome' = "fatal"
    /\ pc' = "done"
    /\ UNCHANGED <<args, pdf, pg, all_tables, table, line, items_and_prices,
                   scanVars, normVars, itemVars>>

\* if create_new: self.create_new_spreadsheet(...)
RunCreateNew ==
    /\ pc = "authenticated"
    /\ args.create_new
    /\ pdf_total' = extract_betalat_total(pdf)
    /\ calls' = calls \o
          << [op |-> "create", tab |-> NewSheetTab],
             [op |-> "update", tab |-> NewSheetTab,
              values |-> NewSheetData(items_and_prices,
                                      extract_betalat_total(pdf))] >>
    /\ outcome' = "exported"
    /\ pc' = "done"
    /\ UNCHANGED <<args, pdf, pg, all_tables, table, line, items_and_prices,
                   scanVars, normVars, itemVars>>

\* if not spreadsheet_id: print("Error: ..."); sys.exit(1)
RunMissingId ==
    /\ pc = "authenticated"
    /\ ~args.create_new
    /\ args.spreadsheet_id = <<>>
    /\ outcome' = "fatal"
    /\ pc' = "done"
    /\ UNCHANGED <<args, pdf, pg, all_tables, table, calls, items_and_prices,
                   scanVars, normVars, totalVars, itemVars>>

\* final_sheet_name, then self.create_or_update_sheet(...); the named sheet
\* exists in the spreadsheet or is added first
RunUpdateSheet ==
    /\ pc = "authenticated"
    /\ ~args.create_new
    /\ args.spreadsheet_id # <<>>
    /\ pdf_total' = extract_betalat_total(pdf)
    /\ \E sheet_exists \in BOOLEAN :
          calls' = calls
             \o << [op |-> "get", id |-> args.spreadsheet_id] >>
             \o (IF sheet_exists THEN <<>>
                 ELSE << [op |-> "add_sheet",
                          tab |-> FinalSheetName(args.sheet_name, pdf)] >>)
             \o << [op |-> "clear",
                    tab |-> FinalSheetName(args.sheet_name, pdf)],
                   [op |-> "update",
                    tab |-> FinalSheetName(args.sheet_name, pdf),
                    values |-> UpdateSheetData(items_and_prices,
                                               extract_betalat_total(pdf))] >>
    /\ outcome' = "exported"
    /\ pc' = "done"
    /\ UNCHANGED <<args, pdf, pg, all_tables, table, line, items_and_prices,
                   scanVars, normVars, itemVars>>

Next ==
    \/ RunMissingPdf
    \/ RunNoTable
    \/ RunExtract
    \/ RunNoItems
    \/ RunSaveCsv
    \/ RunAuthenticate
    \/ RunAuthNoCredentials
    \/ RunApiError
    \/ RunCreateNew
    \/ RunMissingId
    \/ RunUpdateSheet

Spec == Init /\ [][Next]_vars

-----------------------------------------------------------------------------
(* The text formats the claims name, stated on the text itself.            *)

\* s fully matches ^\d+\.\d{2}$
IsDecimal2(s) ==
    LET n == Len(s)
    IN  /\ n >= 4
        /\ s[n - 2] = "."
        /\ IsDigit(s[n - 1]) /\ IsDigit(s[n])
        /\ \A i \in 1..(n - 3) : IsDigit(s[i])

\* t fully matches ^\d+[,.]\d{2}$
IsPriceText(t) ==
    LET n == Len(t)
    IN  /\ n >= 4
        /\ t[n - 2] \in {",", "."}
        /\ IsDigit(t[n - 1]) /\ IsDigit(t[n])
        /\ \A i \in 1..(n - 3) : IsDigit(t[i])

\* t fully matches ^\d{4,}$
IsArticleText(t) == Len(t) >= 4 /\ \A i \in 1..Len(t) : IsDigit(t[i])

-----------------------------------------------------------------------------
(* C1, C3: the Row Normalizer.                                             *)

\* C1: every pair the Row Normalizer has emitted, whatever the cells of the
\* table hold, has a price that fully matches ^\d+\.\d{2}$.
C1_PriceFormat ==
    \A k \in 1..Len(items_and_prices) : IsDecimal2(items_and_prices[k][2])

\* a run that emitted the pair of a row whose price cell holds a currency word
C1_Witness ==
    /\ pc = "norm_return"
    /\ table_len >= 2
    /\ items_and_prices # <<>>
    /\ ~RowTooShort(row, desc_col_idx, price_col_idx)
    /\ Contains(Str(CellAt(row, price_col_idx)), "kr")
    /\ items_and_prices[Len(items_and_prices)][2] = <<"2", "5", ".", "5", "0">>

\* C3, as claimed: the row has a cell at the resolved description index and
\* at the resolved price index (the last column for the default -1)
ClaimHasCells(r, d, p) ==
    /\ d < Len(r)
    /\ IF p < 0 THEN Len(r) >= 0 - p ELSE p < Len(r)

\* the cell, trimmed, is neither empty nor 'None'/'nan'
ClaimUsable(cell) == Strip(Str(cell)) \notin {<<>>, <<"None">>, <<"nan">>}

\* the pairs the claim gives data row r: one or none.  The description is
\* the trimmed cell with the apostrophe escape of a leading '+' or '*'.
ClaimPairs(r, d, p) ==
    IF /\ ClaimHasCells(r, d, p)
       /\ ClaimUsable(CellAt(r, d))
       /\ ClaimUsable(CellAt(r, p))
       /\ IsDecimal2(CleanPrice(Strip(Str(CellAt(r, p)))))
    THEN << <<EscapeName(Strip(Str(CellAt(r, d)))),
              CleanPrice(Strip(Str(CellAt(r, p))))>> >>
    ELSE <<>>

\* C3: reading a data row appends to the output exactly the pair the claim
\* gives that row (one pair for a row with both cells, usable and with a
\* well-formed cleaned price; nothing for any other row), so that the output
\* is those pairs in source row order.
C3_ExactOutput ==
    [][(pc = "norm_rows" /\ ri' = ri + 1) =>
         items_and_prices' =
            items_and_prices \o ClaimPairs(row', desc_col_idx, price_col_idx)]_vars

-----------------------------------------------------------------------------
(* C4: the Item-Line Parser.                                               *)

ClaimArticles(ps) == {i \in 1..Len(ps) : IsArticleText(ps[i])}

ClaimPricesAfter(ps, i) ==
    Cardinality({j \in (i + 1)..Len(ps) : IsPriceText(ps[j])})

\* C4, as claimed: a line of at least 4 tokens gives an item row if and only
\* if it has a 4+-digit token and at least 2 price tokens after the first one.
C4_AsClaimed ==
    (pc = "item_done" /\ Len(parts) >= 4) =>
        (item_row # <<>> <=>
            /\ ClaimArticles(parts) # {}
            /\ ClaimPricesAfter(parts, MinOf(ClaimArticles(parts))) >= 2)

\* C4, amended: a line of at least 4 tokens gives an item row if and only if
\* it has a 4+-digit token, the first such token is not the first token of
\* the line (the description is not empty), and at least 2 price tokens
\* follow that token.
C4_ItemRowIff ==
    (pc = "item_done" /\ Len(parts) >= 4) =>
        (item_row # <<>> <=>
            /\ ClaimArticles(parts) # {}
            /\ MinOf(ClaimArticles(parts)) > 1
            /\ ClaimPricesAfter(parts, MinOf(ClaimArticles(parts))) >= 2)

\* a row built from a line with a second 4+-digit token after the first
C4_Witness ==
    /\ pc = "item_done"
    /\ item_row # <<>>
    /\ Cardinality(ClaimArticles(parts)) >= 2

-----------------------------------------------------------------------------
(* C7: the paid total.                                                     *)

\* everything following the leading 'Betalat ', commas replaced by dots
\* (blanks around it are not counted against the claim)
ClaimAmount(l) == CommaToDot(Strip(SubSeq(l, Len(BetalatPrefix) + 1, Len(l))))

\* C7: a non-empty paid total is returned only for a line that starts with
\* 'Betalat ' and whose remainder after that prefix, commas replaced by dots,
\* fully matches ^\d+\.\d{2}$, and it equals that remainder.
C7_AsClaimed ==
    (pc = "total_return" /\ pdf_total # <<>>) =>
        /\ StartsWith(line, BetalatPrefix)
        /\ IsDecimal2(ClaimAmount(line))
        /\ pdf_total = ClaimAmount(line)

-----------------------------------------------------------------------------
(* C2, C10: the text-fallback path.                                        *)

\* the tokens of an item line, as the claims describe an accepted line
ClaimAccepted(ps) ==
    /\ Len(ps) >= 4
    /\ ClaimArticles(ps) # {}
    /\ MinOf(ClaimArticles(ps)) > 1
    /\ ClaimPricesAfter(ps, MinOf(ClaimArticles(ps))) >= 2

\* everything before the first 4+-digit token, joined by single blanks
ClaimDescription(ps) == JoinSp(SubSeq(ps, 1, MinOf(ClaimArticles(ps)) - 1))

\* the last price candidate after the first 4+-digit token, comma as dot
ClaimLineTotal(ps) ==
    CommaToDot(ps[MaxOf({j \in (MinOf(ClaimArticles(ps)) + 1)..Len(ps) :
                            IsPriceText(ps[j])})])

\* a header line, then lines that are no header and no footer, then at most
\* one 'Betalat ' line
ClaimShape(ls) ==
    /\ Len(ls) >= 1
    /\ IsHeaderLine(ls[1])
    /\ \A i \in 2..Len(ls) :
          /\ ~IsHeaderLine(ls[i])
          /\ IsFooterLine(ls[i]) =>
                (i = Len(ls) /\ StartsWith(ls[i], BetalatPrefix))

\* one pair (description, line total) per accepted line from line i on
RECURSIVE ClaimTextPairs(_, _)
ClaimTextPairs(ls, i) ==
    IF i > Len(ls) THEN <<>>
    ELSE (IF ClaimAccepted(SplitWs(ls[i]))
          THEN << <<ClaimDescription(SplitWs(ls[i])),
                    ClaimLineTotal(SplitWs(ls[i]))>> >>
          ELSE <<>>) \o ClaimTextPairs(ls, i + 1)

\* the same, without the lines whose description is 'None' or 'nan', and
\* with the apostrophe escape of a leading '+' or '*'
RECURSIVE AmendedTextPairs(_, _)
AmendedTextPairs(ls, i) ==
    IF i > Len(ls) THEN <<>>
    ELSE (IF /\ ClaimAccepted(SplitWs(ls[i]))
             /\ ClaimDescription(SplitWs(ls[i])) \notin {<<"None">>, <<"nan">>}
          THEN << <<EscapeName(ClaimDescription(SplitWs(ls[i]))),
                    ClaimLineTotal(SplitWs(ls[i]))>> >>
          ELSE <<>>) \o AmendedTextPairs(ls, i + 1)

\* the cells of the header line resolve the description column to the first
\* cell and the price column to the fifth cell or to the default last one
HeaderFitsItemRows(l) ==
    /\ ResolveColumns(SplitWide(l))[1] = 0
    /\ ResolveColumns(SplitWide(l))[2] \in {0 - 1, 4}

ScenarioAResult ==
    (pc = "done" /\ lines = ScenarioA) =>
        /\ items_and_prices = << <<<<"Milk">>, <<"1", "0", ".", "0", "0">>>> >>
        /\ pdf_total = <<"1", "0", ".", "0", "0">>

\* C2, as claimed: for a text of that shape, whatever cells the header line
\* splits into, the pairs emitted are one per accepted item line, in line
\* order, (description, line total); scenario A gives [("Milk","10.00")] and
\* paid total "10.00".
C2_AsClaimed ==
    /\ (pc = "normalized" /\ ClaimShape(lines)) =>
           items_and_prices = ClaimTextPairs(lines, 2)
    /\ ScenarioAResult

\* C2, amended: the same for the header lines whose cells resolve the
\* description column to the first cell and the price column to the fifth
\* cell or the default last column; a line whose description is 'None' or
\* 'nan' gives no pair, and a description starting with '+' or '*' is emitted
\* with an apostrophe before it.
C2_TextPairs ==
    /\ (pc = "normalized" /\ ClaimShape(lines) /\ HeaderFitsItemRows(lines[1])) =>
           items_and_prices = AmendedTextPairs(lines, 2)
    /\ ScenarioAResult

\* a header split into five cells followed by two accepted item lines, the
\* second with a unit price other than its line total
C2_Witness ==
    /\ pc = "normalized"
    /\ ClaimShape(lines)
    /\ HeaderFitsItemRows(lines[1])
    /\ Len(SplitWide(lines[1])) = 5
    /\ Len(items_and_prices) = 2
    /\ table[3][3] # table[3][5]

\* a 5-cell item row [description, article_number, unit_price, "1.00 st",
\* line_total]
ClaimIsItemRow(r) ==
    /\ Len(r) = 5
    /\ r[1] # <<>>
    /\ IsArticleText(r[2])
    /\ IsDecimal2(r[3])
    /\ r[4] = QuantityLabel
    /\ IsDecimal2(r[5])

\* the first header line of the lines scanned
ClaimFirstHeader(ls) == ls[MinOf({i \in 1..Len(ls) : IsHeaderLine(ls[i])})]

\* C10: a table parse_receipt_text returns as a candidate has row 0 equal to
\* the header line split on runs of 2+ blanks, every later row a 5-cell item
\* row, and at least one item row; a scan that assembled no item row returns
\* no candidate.
C10_AsClaimed ==
    pc = "scan_return" =>
        /\ table # <<>> =>
              /\ table[1] = SplitWide(ClaimFirstHeader(lines))
              /\ Len(table) >= 2
              /\ \A i \in 2..Len(table) : ClaimIsItemRow(table[i])
        /\ (\A i \in 1..Len(table_rows) : ~ClaimIsItemRow(table_rows[i])) =>
              table = <<>>

-----------------------------------------------------------------------------
(* C5: table selection.                                                    *)

\* the candidates the claim names, page by page: every structural table of
\* a page that has any, otherwise the page's synthetic table unless it is
\* discarded
RECURSIVE ClaimCandidates(_, _)
ClaimCandidates(pages, i) ==
    IF i > Len(pages) THEN <<>>
    ELSE (IF Len(pages[i].tables) >= 1 THEN pages[i].tables
          ELSE IF parse_receipt_text(pages[i].text) = <<>> THEN <<>>
               ELSE <<parse_receipt_text(pages[i].text)>>)
         \o ClaimCandidates(pages, i + 1)

\* C5: extract_table_from_pdf returns a candidate of greatest row count, the
\* first gathered among those of that row count, and fails exactly when
\* there is no candidate.
C5_Selection ==
    LET cands == ClaimCandidates(pdf, 1)
    IN  /\ pc = "extract_return" =>
              \E k \in 1..Len(cands) :
                  /\ table = cands[k]
                  /\ \A j \in 1..Len(cands) : Len(cands[j]) <= Len(cands[k])
                  /\ \A j \in 1..(k - 1) : Len(cands[j]) < Len(cands[k])
        /\ pc = "extract_exit" => (outcome = "fatal" /\ cands = <<>>)
        /\ pc \in {"extract_return", "extract_exit"} =>
              (cands = <<>> <=> pc = "extract_exit")

\* two different candidates of the greatest row count, the first returned
C5_Witness ==
    /\ pc = "extract_return"
    /\ \E j, k \in 1..Len(all_tables) :
          /\ j < k
          /\ all_tables[j] # all_tables[k]
          /\ Len(all_tables[j]) = Len(all_tables[k])
          /\ \A m \in 1..Len(all_tables) :
                Len(all_tables[m]) <= Len(all_tables[j])
          /\ \A m \in 1..(j - 1) : Len(all_tables[m]) < Len(all_tables[j])
          /\ table = all_tables[j]

-----------------------------------------------------------------------------
(* The export operations of a run, read off the log of calls.              *)

ExportOps == {"csv_write", "authenticate", "create", "get", "add_sheet",
              "clear", "update"}

ClaimExportIssued == \E i \in 1..Len(calls) : calls[i].op \in ExportOps

ClaimNoCandidate == \A i \in 1..Len(pdf) : ClaimCandidates(pdf, i) = <<>>

\* the calls that write a grid of values to a tab
ClaimWrites == {i \in 1..Len(calls) : calls[i].op = "update"}

(* C6: in every run of process_receipt an export operation (CSV write,     *)
(* authentication, spreadsheet create/clear/update) is issued only after   *)
(* the Row Normalizer produced at least one pair; a run over pages with no *)
(* candidate table ends as a fatal failure, a run whose selected table     *)
(* yields zero pairs ends reporting "no items found", and neither issues   *)
(* an export call.                                                         *)
C6_ExportAfterPair ==
    /\ ClaimExportIssued => items_and_prices # <<>>
    /\ (pc = "done" /\ args.exists /\ ClaimNoCandidate)
          => (outcome = "fatal" /\ ~ClaimExportIssued)
    /\ (pc = "done" /\ table # <<>> /\ items_and_prices = <<>>)
          => (outcome = "no_items" /\ ~ClaimExportIssued)

\* a run that found a table, got no pair from it, and ended without export
C6_Witness ==
    /\ pc = "done"
    /\ table # <<>>
    /\ items_and_prices = <<>>
    /\ outcome = "no_items"
    /\ calls = <<>>

\* the tab name the claim describes: the date replaces a default name
ClaimTab ==
    IF args.sheet_name = <<"Receipt Items">> /\ extract_date_from_pdf(pdf) # <<>>
    THEN extract_date_from_pdf(pdf)
    ELSE args.sheet_name

(* C8 as claimed: in spreadsheet mode, existing spreadsheet or create new, *)
(* the tab written is the document date when the caller kept the default   *)
(* name and the date is non-empty, else the name given.                    *)
C8_AsClaimed == \A i \in ClaimWrites : calls[i].tab = ClaimTab

(* C8: with an existing spreadsheet id the tab written is the document     *)
(* date when the name passed equals the default "Receipt Items" and the    *)
(* date is non-empty, else the name passed; with create new the tab        *)
(* written is always "Receipt Items", whatever the name and the date.      *)
C8_TabName ==
    \A i \in ClaimWrites :
        calls[i].tab = IF args.create_new THEN <<"Receipt Items">>
                       ELSE ClaimTab

\* an existing spreadsheet, default name, a dated document: tab is the date
C8_Witness ==
    /\ outcome = "exported"
    /\ ~args.create_new
    /\ args.sheet_name = <<"Receipt Items">>
    /\ \E i \in ClaimWrites :
          calls[i].tab = <<"2", "0", "2", "5", "-", "0", "3", "-", "1", "4">>

\* the numerals of the row numbers a grid can name
ClaimNumeral(n) ==
    << <<"1">>, <<"2">>, <<"3">>, <<"4">>, <<"5">>, <<"6">>, <<"7">>,
       <<"8">>, <<"9">>, <<"1", "0">>, <<"1", "1">>, <<"1", "2">>,
       <<"1", "3">>, <<"1", "4">>, <<"1", "5">>, <<"1", "6">>,
       <<"1", "7">>, <<"1", "8">>, <<"1", "9">>, <<"2", "0">> >>[n]

ClaimBlank == <<>>

\* the layout of the grid g written for the pairs data and the paid total
ClaimLayout(g, data, total) ==
    LET N == Len(data)
    IN  /\ N >= 1
        /\ Len(g) = N + 7
        /\ \A r \in 1..Len(g) : Len(g[r]) = 7
        /\ g[1] = <<<<"Item">>, <<"Shared expenses">>, <<"My expenses">>,
                    <<"Jessica expenses">>, ClaimBlank, ClaimBlank, ClaimBlank>>
        /\ \A k \in 1..N :
              /\ g[k + 1][1] = data[k][1]
              /\ g[k + 1][2] = data[k][2]
              /\ \A c \in 3..7 : g[k + 1][c] = ClaimBlank
        /\ \A c \in 1..7 : g[N + 2][c] = ClaimBlank
        /\ \A r \in (N + 3)..(N + 7) : \A c \in 1..5 : g[r][c] = ClaimBlank
        /\ g[N + 3][7] = <<"=SUM(", "B", ":", "B", ")">>
        /\ g[N + 4][7] = <<"=SUM(", "C", ":", "C", ")">>
        /\ g[N + 5][7] = <<"=SUM(", "D", ":", "D", ")">>
        /\ g[N + 6][6] = <<"Sheet total">>
        /\ g[N + 6][7] = <<"=SUM(", "G">> \o ClaimNumeral(N + 3)
                            \o <<":", "G">> \o ClaimNumeral(N + 5) \o <<")">>
        /\ g[N + 7][6] = <<"PDF total">>
        /\ g[N + 7][7] = total

(* C9: for every number N >= 1 of pairs, the grid written by               *)
(* create_or_update_sheet and by create_new_spreadsheet has N+7 rows of 7  *)
(* columns: the fixed header, the pairs in order, a blank row, the sums of *)
(* columns B, C, D in column G, the sheet total over exactly               *)
(* G(N+3):G(N+5), and the paid total (empty when not found).               *)
C9_Layout ==
    \A i \in ClaimWrites :
        ClaimLayout(calls[i].values, items_and_prices, pdf_total)

\* both uploads wrote a grid whose total names two-digit rows
C9_Witness ==
    /\ outcome = "exported"
    /\ Len(items_and_prices) >= 5
    /\ \E i \in ClaimWrites : Len(calls[i].values) = Len(items_and_prices) + 7

-----------------------------------------------------------------------------
(* C11: the line scan as the machine BeforeHeader -> InTable -> Done.      *)

ClaimHasHeaderKeyword(l) ==
    \E i \in 1..Len(l) :
        l[i] \in {"Beskrivning", "Artikelnummer", "Pris", "Mängd", "Summa"}

\* case-insensitively
ClaimHasFooterKeyword(l) ==
    \E i \in 1..Len(l) :
        LowerAtom(l[i]) \in {"betalat", "moms", "kort", "totalt", "köp"}

\* the machine's state after line l: the phase, and the rows produced.  A
\* row comes only from a header line, which also opens the table, or from
\* an accepted item line in phase InTable.
ClaimScanStep(m, l) ==
    IF m.phase = "Done" THEN m
    ELSE IF ClaimHasHeaderKeyword(l)
         THEN [phase |-> "InTable", rows |-> Append(m.rows, SplitWide(l))]
    ELSE IF m.phase = "BeforeHeader" THEN m
    ELSE IF ClaimHasFooterKeyword(l) THEN [m EXCEPT !.phase = "Done"]
    ELSE IF ClaimAccepted(SplitWs(l))
         THEN [m EXCEPT !.rows = Append(@, ItemRowOf(SplitWs(l)))]
         ELSE m

\* the machine after the first n of the lines ls
RECURSIVE ClaimScan(_, _)
ClaimScan(ls, n) ==
    IF n = 0 THEN [phase |-> "BeforeHeader", rows |-> <<>>]
    ELSE ClaimScanStep(ClaimScan(ls, n - 1), ls[n])

(* C11: for any sequence of lines the scan is in the phase the machine     *)
(* gives the lines read so far: before the first header line no row has    *)
(* been produced and a footer keyword does not end the scan; after a       *)
(* header the first line with a footer keyword (in any case) and no header *)
(* keyword ends it; once ended, the rows are those of the lines before     *)
(* that line, whatever item or header lines follow, and the scan never     *)
(* resumes.                                                                *)
C11_ScanMachine ==
    LET m == ClaimScan(lines, li)
    IN  /\ (m.phase = "BeforeHeader") <=> ~header_found
        /\ m.phase = "BeforeHeader" => table_rows = <<>>
        /\ pc = "scan" => m.phase # "Done"
        /\ m.phase = "Done" => (pc # "scan" /\ ClaimHasFooterKeyword(lines[li]))
        /\ (pc # "scan" /\ li < Len(lines)) => m.phase = "Done"
        /\ table_rows = m.rows
        /\ pc # "scan" => table_rows = ClaimScan(lines, Len(lines)).rows

\* a scan ended by 'Betalat 10,00' after a header, with an accepted item
\* line still unread behind it
C11_Witness ==
    /\ pc = "scan_done"
    /\ header_found
    /\ li < Len(lines)
    /\ lines[li] = ScenarioPaid
    /\ ClaimAccepted(SplitWs(lines[li + 1]))
    /\ Len(table_rows) = 1

-----------------------------------------------------------------------------
(* C12: column resolution in the Row Normalizer.                           *)

\* the text of the header cell holds one of the keywords, in any case
ClaimCellHas(cell, kws) ==
    \E i \in 1..Len(Str(cell)) : LowerAtom(Str(cell)[i]) \in kws

\* the columns (from 0) of header row h whose text holds a description
\* keyword
ClaimDescColumns(h) ==
    {i \in 0..(Len(h) - 1) :
        ClaimCellHas(h[i + 1], {"beskrivning", "description"})}

\* the columns (from 0) of header row h whose text holds the sum keyword
ClaimSumColumns(h) ==
    {i \in 0..(Len(h) - 1) : ClaimCellHas(h[i + 1], {"summa"})}

\* index idx names a column of S in header row h; a negative index counts
\* from the end, -1 the last column
ClaimNames(h, idx, S) ==
    \/ idx \in S
    \/ idx < 0 /\ (Len(h) + idx) \in S

\* the header loop has run
ClaimResolved == pc \in {"norm_rows", "norm_return"} /\ table_len >= 2

(* C12 as claimed: for every header row the two columns are resolved by    *)
(* independent keyword tests: a column holding a description keyword is    *)
(* the description column, else column 0; a column holding 'summa' is the  *)
(* price column, else the last column; also when one cell holds both.      *)
C12_AsClaimed ==
    ClaimResolved =>
        /\ IF ClaimDescColumns(header_row) # {}
           THEN desc_col_idx \in ClaimDescColumns(header_row)
           ELSE desc_col_idx = 0
        /\ IF ClaimSumColumns(header_row) # {}
           THEN ClaimNames(header_row, price_col_idx,
                           ClaimSumColumns(header_row))
           ELSE price_col_idx = 0 - 1

(* C12: the description column is the last column holding a description    *)
(* keyword, else column 0; the price column is the last column that holds  *)
(* 'summa' and no description keyword, else the last column (index -1): a  *)
(* cell holding both keywords counts as a description column only.         *)
C12_ColumnResolution ==
    ClaimResolved =>
        /\ desc_col_idx =
              (IF ClaimDescColumns(header_row) # {}
               THEN MaxOf(ClaimDescColumns(header_row)) ELSE 0)
        /\ price_col_idx =
              (IF ClaimSumColumns(header_row) \ ClaimDescColumns(header_row) # {}
               THEN MaxOf(ClaimSumColumns(header_row)
                             \ ClaimDescColumns(header_row))
               ELSE 0 - 1)

\* a header row whose first cell holds both keywords and whose second cell
\* holds neither: the price column stays the last one
C12_Witness ==
    /\ ClaimResolved
    /\ Len(header_row) = 2
    /\ 0 \in ClaimDescColumns(header_row) \cap ClaimSumColumns(header_row)
    /\ ClaimSumColumns(header_row) = {0}
    /\ desc_col_idx = 0
    /\ price_col_idx = 0 - 1

=============================================================================
